---------------------------- MODULE Spec2Model ----------------------------
(***************************************************************************)
(* A model of cfg::ConfigManager (projects/config/config_manager.cpp):     *)
(* the legacy-marker guard, the logger hot-reload gate, the Server         *)
(* document load with version validation, the server identity store and    *)
(* the snapshot / save operations.                                         *)
(*                                                                         *)
(* Strings whose bytes matter (the identity and the identity-storage file) *)
(* are sequences of characters; a caller of LoadConfigs is one thread      *)
(* whose position is pc, a caller of the snapshot / save operations is     *)
(* another whose position is rpc.                                          *)
(***************************************************************************)
EXTENDS Integers, Sequences, FiniteSets, TLC

VARIABLES
    fs,             \* the base directories: marker files, logger mtime, identity storage
    last_modified,  \* _last_modified
    logsys,         \* the process-wide logging state (ov_log_*, monitoring, stat logs)
    server,         \* _server
    config_path,    \* _config_path
    server_id,      \* _server_id
    config_mutex,   \* _config_mutex
    pc,             \* position of the thread inside LoadConfigs
    arg,            \* LoadConfigs' local config_path
    rpc,            \* position of the thread inside a snapshot / save
    result,         \* the last operation called and how it ended
    gate,           \* what LoadLoggerConfig did in it
    resolve,        \* what LoadServerID did in it
    snap,           \* what the last snapshot returned
    first_id,       \* the identity the first LoadServerID resolved
    external,       \* number of changes made to the directories from outside
    vin,            \* arguments of a direct CheckValidVersion call
    vres            \* its outcome

vars == <<fs, last_modified, logsys, server, config_path, server_id, config_mutex,
          pc, arg, rpc, result, gate, resolve, snap, first_id, external,
          vin, vres>>

---------------------------------------------------------------------------
(* Bounds *)

\* tv_sec and tv_nsec of a modification time range over 0..MaxTime
MaxTime == 1
\* longest identity-storage file content, in characters
MaxLen == 3
\* most (tag, level) entries of a Logger document
MaxTags == 2
\* most changes made to the directories from outside the process
MaxExternal == 1
\* document versions tried range over -1..MaxVersion
MaxVersion == 11

---------------------------------------------------------------------------
(* Strings *)

LF == "LF"
NUL == "NUL"
Chars == {"a", "b", LF, NUL}

RECURSIVE SeqsUpTo(_, _)
SeqsUpTo(S, n) ==
    IF n = 0 THEN {<<>>}
    ELSE LET shorter == SeqsUpTo(S, n - 1)
         IN  shorter \cup {Append(s, c) : s \in {t \in shorter : Len(t) = n - 1}, c \in S}

\* position of the first c in s, Len(s) + 1 when there is none
RECURSIVE FirstIndex(_, _, _)
FirstIndex(s, c, i) ==
    IF i > Len(s) THEN Len(s) + 1
    ELSE IF s[i] = c THEN i
    ELSE FirstIndex(s, c, i + 1)

Before(s, c) == SubSeq(s, 1, FirstIndex(s, c, 1) - 1)

\* std::getline(fs, line): the characters before the first '\n'
GetLine(content) == Before(content, LF)

\* line.erase(std::remove(line.begin(), line.end(), '\n'), line.end())
EraseNewlines(line) == SelectSeq(line, LAMBDA c : c # LF)

\* ov::String(line.c_str()): a C string ends at its first NUL
FromCStr(line) == Before(line, NUL)

---------------------------------------------------------------------------
(* Version registry and validation *)

\* _supported_versions_map, as the constructor fills it
supported_versions_map ==
    [name \in {"Server", "Logger"} |-> IF name = "Server" THEN <<8, 9>> ELSE <<2>>]

Range(s) == {s[i] : i \in 1..Len(s)}

NOTES_V7_V8 == "Major Changes (v7 -> v8)"
NOTES_V8_V9 == "Major Changes (v8 -> v9)"

CheckValidVersion_LatestOnly(name, version) ==
    IF name \notin DOMAIN supported_versions_map
    THEN [kind |-> "cannot_find", name |-> name, version |-> version, notes |-> <<>>]
    ELSE IF version = 0
    THEN [kind |-> "no_version", name |-> name, version |-> version, notes |-> <<>>]
    ELSE IF version # supported_versions_map[name][Len(supported_versions_map[name])]
    THEN [kind |-> "outdated", name |-> name, version |-> version,
          notes |-> (IF version <= 7 THEN <<NOTES_V7_V8>> ELSE <<>>)
                    \o (IF version <= 8 THEN <<NOTES_V8_V9>> ELSE <<>>)]
    ELSE [kind |-> "ok", name |-> name, version |-> version, notes |-> <<>>]

CheckValidVersion_OnlyLastNote(name, version) ==
    IF name \notin DOMAIN supported_versions_map
    THEN [kind |-> "cannot_find", name |-> name, version |-> version, notes |-> <<>>]
    ELSE IF version = 0
    THEN [kind |-> "no_version", name |-> name, version |-> version, notes |-> <<>>]
    ELSE IF version \notin Range(supported_versions_map[name])
    THEN [kind |-> "outdated", name |-> name, version |-> version,
          notes |-> IF version <= 7 THEN <<NOTES_V7_V8>>
                    ELSE IF version <= 8 THEN <<NOTES_V8_V9>> ELSE <<>>]
    ELSE [kind |-> "ok", name |-> name, version |-> version, notes |-> <<>>]

CheckValidVersion_ZeroIsOutdated(name, version) ==
    IF name \notin DOMAIN supported_versions_map
    THEN [kind |-> "cannot_find", name |-> name, version |-> version, notes |-> <<>>]
    ELSE IF version \notin Range(supported_versions_map[name])
    THEN [kind |-> "outdated", name |-> name, version |-> version,
          notes |-> (IF version <= 7 THEN <<NOTES_V7_V8>> ELSE <<>>)
                    \o (IF version <= 8 THEN <<NOTES_V8_V9>> ELSE <<>>)]
    ELSE [kind |-> "ok", name |-> name, version |-> version, notes |-> <<>>]

\* CheckValidVersion(name, version): what it throws, or "ok". The "Latest
\* version: %d" field of the outdated message is not part of the outcome: the
\* code passes the whole vector to a %d conversion, so what it prints is not
\* determined by the versions.
CheckValidVersion(name, version) ==
    IF name \notin DOMAIN supported_versions_map
    THEN [kind |-> "cannot_find", name |-> name, version |-> version, notes |-> <<>>]
    ELSE IF version = 0
    THEN [kind |-> "no_version", name |-> name, version |-> version, notes |-> <<>>]
    ELSE IF version \notin Range(supported_versions_map[name])
    THEN [kind |-> "outdated", name |-> name, version |-> version,
          notes |-> (IF version <= 7 THEN <<NOTES_V7_V8>> ELSE <<>>)
                    \o (IF version <= 8 THEN <<NOTES_V8_V9>> ELSE <<>>)]
    ELSE [kind |-> "ok", name |-> name, version |-> version, notes |-> <<>>]


---------------------------------------------------------------------------
(* The directories and the documents LoadConfigs reads *)

\* ov::PathManager::GetAppPath("conf"), the directory whose files are modelled,
\* and the path of a directory that holds no file at all
DefaultPath == "conf"
Dirs == {DefaultPath}
OtherPath == "empty"
Paths == Dirs \cup {OtherPath}

\* the identity-storage file: whether it can be opened for reading, and its bytes
NoFile == [exists |-> FALSE, content |-> <<>>]
File(content) == [exists |-> TRUE, content |-> content]

\* what stands for st_mtim when stat() returns -1
NoStat == [tv_sec |-> -1, tv_nsec |-> -1]

TimeRange == 0..MaxTime
Timespec == [tv_sec : TimeRange, tv_nsec : TimeRange]
ZeroTime == [tv_sec |-> 0, tv_nsec |-> 0]

\* identities ov::UUID::Generate() may return
UUIDs == {<<"u", "1">>, <<"u", "2">>}

\* contents of an identity-storage file put into a directory from outside
StorageSamples == {<<"b", LF>>, <<"a", NUL, LF>>}

\* a Logger document as ConfigLoggerLoader reads it: whether Parse() succeeds,
\* GetVersion() as ToInt32 converts it, GetLogPath(), and GetTags() with, for
\* each tag in order, whether ov_log_set_enable() accepts it
TagNames == <<"t1", "t2", "t3", "t4">>
TagLists ==
    {[i \in 1..Len(accepts) |-> [name |-> TagNames[i], accepted |-> accepts[i]]] :
        accepts \in SeqsUpTo(BOOLEAN, MaxTags)}
LoggerDocs ==
    {[parses |-> FALSE, version |-> 0, log_path |-> "", tags |-> <<>>],
     [parses |-> TRUE, version |-> 3, log_path |-> "logs", tags |-> <<>>]}
    \cup [parses : {TRUE}, version : {2}, log_path : {"logs"}, tags : TagLists]

\* a Server document as FromDataSource reads it: whether parsing succeeds and
\* GetVersion() as ToInt32 converts it (0: missing or not a number)
NoServerDoc == [parses |-> FALSE, version |-> 0]
ServerDocs == {NoServerDoc} \cup [parses : {TRUE}, version : {7, 8, 9}]

\* the in-memory Server object; id_set tells whether SetID() was called on it
NullServer == [allocated |-> FALSE, parsed |-> FALSE, version |-> 0, id |-> <<>>,
               id_set |-> FALSE]
NewServer == [allocated |-> TRUE, parsed |-> FALSE, version |-> 0, id |-> <<>>,
              id_set |-> FALSE]

\* the logging state before any configuration is applied
DefaultLog == [log_path |-> "", monitor_path |-> "", stat_path |-> "", tags |-> {}]

EmptyDir == [last_config |-> FALSE, legacy_last_config |-> FALSE,
             logger_mtime |-> NoStat, storage |-> NoFile]

\* the files under a path, and the main files that may be found there
DirAt(files, path) == IF path \in Dirs THEN files[path] ELSE EmptyDir
ServerDocsAt(path) == IF path \in Dirs THEN ServerDocs ELSE {NoServerDoc}

\* the directories after a write to the identity-storage file under path
WithStorage(files, path, storage) ==
    IF path \in Dirs THEN [files EXCEPT ![path].storage = storage] ELSE files

---------------------------------------------------------------------------
(* CheckLegacyConfigs *)

CheckLegacyConfigs_CurrentNameOnly(dir) ==
    IF dir.last_config
    THEN [error |-> "legacy", marker |-> "CFG_LAST_CONFIG_FILE_NAME"]
    ELSE [error |-> "none", marker |-> ""]

\* what CheckLegacyConfigs throws for a directory, or "none"
CheckLegacyConfigs(dir) ==
    LET is_last_config_found == dir.last_config
        is_legacy_last_config_found == dir.legacy_last_config
    IN  IF is_last_config_found \/ is_legacy_last_config_found
        THEN [error |-> "legacy",
              marker |-> IF is_last_config_found THEN "CFG_LAST_CONFIG_FILE_NAME"
                         ELSE "CFG_LAST_CONFIG_FILE_NAME_LEGACY"]
        ELSE [error |-> "none", marker |-> ""]

---------------------------------------------------------------------------
(* LoadLoggerConfig *)

\* the comparison of _last_modified with st_mtim, field by field
SameTime(recorded, mtime) ==
    /\ recorded.tv_sec = mtime.tv_sec
    /\ recorded.tv_nsec = mtime.tv_nsec

\* the loop over the tags: ov_log_set_enable() for each in order, stopping at
\* the first one refused
RECURSIVE ApplyTags(_, _)
ApplyTags(tags, applied) ==
    IF tags = <<>> THEN [tags |-> applied, ok |-> TRUE]
    ELSE IF ~Head(tags).accepted THEN [tags |-> applied, ok |-> FALSE]
    ELSE ApplyTags(Tail(tags), applied \cup {Head(tags).name})

LoadLoggerConfig_NoMemset(recorded, mtime, doc, log) ==
    IF mtime = NoStat
    THEN [last_modified |-> recorded, logsys |-> log, did |-> "nofile", error |-> "none"]
    ELSE IF SameTime(recorded, mtime)
    THEN [last_modified |-> recorded, logsys |-> log, did |-> "skip", error |-> "none"]
    ELSE
    LET reset == [log EXCEPT !.tags = {}]
    IN  IF ~doc.parses
        THEN [last_modified |-> mtime, logsys |-> reset, did |-> "reload",
              error |-> "logger_parse"]
        ELSE IF CheckValidVersion("Logger", doc.version).kind # "ok"
        THEN [last_modified |-> mtime, logsys |-> reset, did |-> "reload",
              error |-> "logger_version"]
        ELSE
        LET pathed == [reset EXCEPT !.log_path = doc.log_path,
                                    !.monitor_path = doc.log_path,
                                    !.stat_path = doc.log_path]
            applied == ApplyTags(doc.tags, pathed.tags)
        IN  [last_modified |-> mtime,
             logsys |-> [pathed EXCEPT !.tags = applied.tags],
             did |-> "reload",
             error |-> IF applied.ok THEN "none" ELSE "logger_tag"]

\* LoadLoggerConfig on a logger file with modification time mtime (NoStat when
\* stat fails) holding doc: the new _last_modified and logging state, what the
\* gate did and what was thrown. The memset on entry zeroes _last_modified
\* before the comparison, whatever was recorded.
LoadLoggerConfig(recorded, mtime, doc, log) ==
    LET zeroed == ZeroTime
    IN  IF mtime = NoStat
        THEN [last_modified |-> zeroed, logsys |-> log, did |-> "nofile", error |-> "none"]
        ELSE IF SameTime(zeroed, mtime)
        THEN [last_modified |-> zeroed, logsys |-> log, did |-> "skip", error |-> "none"]
        ELSE
        LET reset == [log EXCEPT !.tags = {}]
        IN  IF ~doc.parses
            THEN [last_modified |-> mtime, logsys |-> reset, did |-> "reload",
                  error |-> "logger_parse"]
            ELSE IF CheckValidVersion("Logger", doc.version).kind # "ok"
            THEN [last_modified |-> mtime, logsys |-> reset, did |-> "reload",
                  error |-> "logger_version"]
            ELSE
            LET pathed == [reset EXCEPT !.log_path = doc.log_path,
                                        !.monitor_path = doc.log_path,
                                        !.stat_path = doc.log_path]
                applied == ApplyTags(doc.tags, pathed.tags)
            IN  [last_modified |-> mtime,
                 logsys |-> [pathed EXCEPT !.tags = applied.tags],
                 did |-> "reload",
                 error |-> IF applied.ok THEN "none" ELSE "logger_tag"]

---------------------------------------------------------------------------
(* The server identity store *)

LoadServerIDFromStorage_WholeFile(storage) ==
    IF ~storage.exists
    THEN [result |-> FALSE, server_id |-> <<>>]
    ELSE [result |-> TRUE, server_id |-> storage.content]

\* LoadServerIDFromStorage: storage is the content of the identity-storage
\* file, NoFile when it cannot be opened
LoadServerIDFromStorage(storage) ==
    IF ~storage.exists
    THEN [result |-> FALSE, server_id |-> <<>>]
    ELSE [result |-> TRUE,
          server_id |-> FromCStr(EraseNewlines(GetLine(storage.content)))]

StoreServerID_WithNewline(storage, id, can_open) ==
    IF ~can_open
    THEN [result |-> FALSE, storage |-> storage]
    ELSE [result |-> TRUE, storage |-> File(<<LF>> \o id)]

\* StoreServerID: the file is truncated and holds the identity's bytes, unless
\* it cannot be opened for writing
StoreServerID(storage, id, can_open) ==
    IF ~can_open
    THEN [result |-> FALSE, storage |-> storage]
    ELSE [result |-> TRUE, storage |-> File(id)]

\* GenerateServerID: uuid is what ov::UUID::Generate() returns
GenerateServerID(uuid) == [result |-> TRUE, server_id |-> uuid]

LoadServerID_FailsUnstored(current, storage, uuid, can_open) ==
    IF storage.exists
    THEN [server_id |-> FromCStr(EraseNewlines(GetLine(storage.content))),
          storage |-> storage, from |-> "storage", stored |-> FALSE]
    ELSE IF can_open
    THEN [server_id |-> uuid, storage |-> File(uuid), from |-> "generated",
          stored |-> TRUE]
    ELSE [server_id |-> current, storage |-> storage, from |-> "none", stored |-> FALSE]

\* LoadServerID: the new _server_id and storage content, where the identity
\* came from and whether it was stored
LoadServerID(current, storage, uuid, can_open) ==
    LET loaded == LoadServerIDFromStorage(storage)
        generated == GenerateServerID(uuid)
    IN  IF loaded.result
        THEN [server_id |-> loaded.server_id, storage |-> storage,
              from |-> "storage", stored |-> FALSE]
        ELSE IF generated.result
        THEN LET store == StoreServerID(storage, generated.server_id, can_open)
             IN  [server_id |-> generated.server_id, storage |-> store.storage,
                  from |-> "generated", stored |-> store.result]
        ELSE [server_id |-> current, storage |-> storage, from |-> "none", stored |-> FALSE]
---------------------------------------------------------------------------
(* LoadServerConfig *)

LoadServerConfig_AcceptsAny(doc) ==
    IF ~doc.parses
    THEN [server |-> NewServer, error |-> "server_parse"]
    ELSE [server |-> [NewServer EXCEPT !.parsed = TRUE, !.version = doc.version],
          error |-> "none"]

\* LoadServerConfig on a main file holding doc: the object _server points to
\* afterwards and what was thrown. _server is assigned the new object before
\* the file is parsed and the version checked.
LoadServerConfig(doc) ==
    IF ~doc.parses
    THEN [server |-> NewServer, error |-> "server_parse"]
    ELSE [server |-> [NewServer EXCEPT !.parsed = TRUE, !.version = doc.version],
          error |-> IF CheckValidVersion("Server", doc.version).kind # "ok"
                    THEN "server_version" ELSE "none"]

---------------------------------------------------------------------------
(* State after construction *)

NoId == <<"unresolved">>
NoResult == [op |-> "none", path |-> "", outcome |-> "none", call |-> 0]
NoGate == [did |-> "none", mtime |-> NoStat, error |-> "none"]
NoResolve == [from |-> "none", before |-> NoFile, stored |-> FALSE, id |-> <<>>]
NoSnap == [format |-> "none", doc |-> NullServer, during |-> "idle"]
NoCall == [name |-> "", version |-> 0]
NoOutcome == [kind |-> "none", name |-> "", version |-> 0, notes |-> <<>>]

\* the object after construction
ProgramInit ==
    /\ last_modified = ZeroTime
    /\ logsys = DefaultLog
    /\ server = NullServer
    /\ config_path = ""
    /\ server_id = <<>>
    /\ config_mutex = "free"
    /\ pc = "idle"
    /\ arg = ""
    /\ rpc = "idle"
    /\ result = NoResult
    /\ gate = NoGate
    /\ snap = NoSnap
    /\ resolve = NoResolve
    /\ first_id = NoId
    /\ external = 0
    /\ vin = NoCall
    /\ vres = NoOutcome

\* a directory as installed: a logger file, no marker, no identity stored yet
InstalledDir == [EmptyDir EXCEPT !.logger_mtime = [tv_sec |-> 1, tv_nsec |-> 0]]

Init ==
    /\ ProgramInit
    /\ fs = [d \in Dirs |-> InstalledDir]

---------------------------------------------------------------------------
(* The operations, each as one step *)

\* the operation op, called on path, ended with outcome
Ended(op, path, outcome) ==
    [op |-> op, path |-> path, outcome |-> outcome, call |-> 1 - result.call]

ResolveRecord(dir, out) ==
    [from |-> out.from, before |-> DirAt(fs, dir).storage, stored |-> out.stored,
     id |-> out.server_id]

GateRecord(dir, out) ==
    [did |-> out.did, mtime |-> DirAt(fs, dir).logger_mtime, error |-> out.error]

\* what ov::UUID::Generate() and the opening of the storage file for writing
\* may give, when LoadServerID gets that far
GenerateInputs(storage) ==
    IF LoadServerIDFromStorage(storage).result
    THEN {[uuid |-> <<>>, can_open |-> FALSE]}
    ELSE [uuid : UUIDs, can_open : BOOLEAN]

\* LoadConfigs(path) from the caller's view: the guard, the logger gate, the
\* Server document, the base path, the identity, SetID, each only if nothing
\* was thrown before it
Load(op, path) ==
    LET dir == IF path = "" THEN DefaultPath ELSE path
        legacy == CheckLegacyConfigs(DirAt(fs, dir))
    IN  /\ pc = "idle"
        /\ rpc = "idle"
        /\ IF legacy.error # "none"
           THEN /\ result' = Ended(op, dir, legacy.error)
                /\ gate' = NoGate
                /\ resolve' = NoResolve
                /\ UNCHANGED <<fs, last_modified, logsys, server, config_path,
                               server_id, first_id>>
           ELSE \E logger_doc \in LoggerDocs :
             LET logger == LoadLoggerConfig(last_modified, DirAt(fs, dir).logger_mtime,
                                            logger_doc, logsys)
             IN  /\ last_modified' = logger.last_modified
                 /\ logsys' = logger.logsys
                 /\ gate' = GateRecord(dir, logger)
                 /\ IF logger.error # "none"
                    THEN /\ result' = Ended(op, dir, logger.error)
                         /\ resolve' = NoResolve
                         /\ UNCHANGED <<fs, server, config_path, server_id, first_id>>
                    ELSE \E server_doc \in ServerDocsAt(dir) :
                      LET loaded == LoadServerConfig(server_doc)
                      IN  IF loaded.error # "none"
                          THEN /\ server' = loaded.server
                               /\ result' = Ended(op, dir, loaded.error)
                               /\ resolve' = NoResolve
                               /\ UNCHANGED <<fs, config_path, server_id, first_id>>
                          ELSE \E in \in GenerateInputs(DirAt(fs, dir).storage) :
                            LET id == LoadServerID(server_id, DirAt(fs, dir).storage,
                                                   in.uuid, in.can_open)
                            IN  /\ config_path' = dir
                                /\ server_id' = id.server_id
                                /\ fs' = WithStorage(fs, dir, id.storage)
                                /\ resolve' = ResolveRecord(dir, id)
                                /\ first_id' = IF first_id = NoId THEN id.server_id
                                               ELSE first_id
                                /\ server' = [loaded.server EXCEPT
                                                !.id = id.server_id, !.id_set = TRUE]
                                /\ result' = Ended(op, dir, "ok")
        /\ UNCHANGED <<config_mutex, pc, arg, rpc, snap, external, vin, vres>>

\* LoadConfigs(config_path)
LoadConfigs == \E path \in Paths \cup {""} : Load("LoadConfigs", path)

\* ReloadConfigs(): LoadConfigs(_config_path)
ReloadConfigs == Load("ReloadConfigs", config_path)

DumpToFile_AlwaysTrue(path, can_open) ==
    [saved |-> "true",
     fs |-> IF can_open /\ path \in Dirs THEN [fs EXCEPT ![path].last_config = TRUE]
            ELSE fs]

\* SaveCurrentConfig(config, last_config_path): ov::DumpToFile creates the file
\* unless it cannot be opened. With an empty _config_path the file lies in the
\* working directory, outside Dirs.
DumpToFile(path, can_open) ==
    IF can_open
    THEN [saved |-> "true",
          fs |-> IF path \in Dirs THEN [fs EXCEPT ![path].last_config = TRUE] ELSE fs]
    ELSE [saved |-> "false", fs |-> fs]

\* SaveCurrentConfig(): GetCurrentConfigAsXml(), then the file under _config_path
SaveCurrentConfig ==
    /\ pc = "idle"
    /\ rpc = "idle"
    /\ server.allocated
    /\ config_mutex = "free"
    /\ \E can_open \in BOOLEAN :
        LET out == DumpToFile(config_path, can_open)
        IN  /\ result' = Ended("SaveCurrentConfig", config_path, out.saved)
            /\ fs' = out.fs
    /\ gate' = NoGate
    /\ resolve' = NoResolve
    /\ UNCHANGED <<last_modified, logsys, server, config_path, server_id, config_mutex,
                   pc, arg, rpc, snap, first_id, external, vin, vres>>

---------------------------------------------------------------------------
(* Changes made to the directories from outside the process *)

External(dir, changed) ==
    /\ pc = "idle"
    /\ rpc = "idle"
    /\ external < MaxExternal
    /\ external' = external + 1
    /\ changed # fs[dir]
    /\ fs' = [fs EXCEPT ![dir] = changed]
    /\ UNCHANGED <<last_modified, logsys, server, config_path, server_id, config_mutex,
                   pc, arg, rpc, result, gate, resolve, snap, first_id, vin, vres>>

\* the logger file is written, touched or removed
TouchLogger ==
    \E dir \in Dirs, mtime \in Timespec \cup {NoStat} :
        External(dir, [fs[dir] EXCEPT !.logger_mtime = mtime])

\* a legacy marker file is put into the directory or removed from it
ChangeMarker ==
    \E dir \in Dirs, present \in BOOLEAN :
        \/ External(dir, [fs[dir] EXCEPT !.last_config = present])
        \/ External(dir, [fs[dir] EXCEPT !.legacy_last_config = present])

\* the identity-storage file is written or removed
ChangeStorage ==
    \E dir \in Dirs, file \in {File(content) : content \in StorageSamples} \cup {NoFile} :
        External(dir, [fs[dir] EXCEPT !.storage = file])

Next ==
    \/ LoadConfigs
    \/ ReloadConfigs
    \/ SaveCurrentConfig
    \/ TouchLogger
    \/ ChangeMarker
    \/ ChangeStorage

\* the operations one after another, and the directories changing between them
Spec == Init /\ [][Next]_vars

---------------------------------------------------------------------------
(* LoadConfigs statement by statement, with a second caller taking snapshots *)

Enter(op, path) ==
    /\ pc = "idle"
    /\ arg' = IF path = "" THEN DefaultPath ELSE path
    /\ pc' = "CheckLegacyConfigs"
    /\ result' = [op |-> op, path |-> arg', outcome |-> "running", call |-> result.call]
    /\ gate' = NoGate
    /\ resolve' = NoResolve
    /\ UNCHANGED <<fs, last_modified, logsys, server, config_path, server_id,
                   config_mutex, rpc, snap, first_id, external, vin, vres>>

\* LoadConfigs(config_path) is entered
EnterLoadConfigs == \E path \in Paths \cup {""} : Enter("LoadConfigs", path)

EnterReloadConfigs_NoGuard ==
    /\ pc = "idle"
    /\ arg' = IF config_path = "" THEN DefaultPath ELSE config_path
    /\ pc' = "LoadLoggerConfig"
    /\ result' = [op |-> "ReloadConfigs", path |-> arg', outcome |-> "running",
                  call |-> result.call]
    /\ gate' = NoGate
    /\ resolve' = NoResolve
    /\ UNCHANGED <<fs, last_modified, logsys, server, config_path, server_id,
                   config_mutex, rpc, snap, first_id, external, vin, vres>>

\* ReloadConfigs() is entered: LoadConfigs(_config_path)
EnterReloadConfigs == Enter("ReloadConfigs", config_path)

\* an exception leaves LoadConfigs
Throw(error) ==
    /\ pc' = "idle"
    /\ result' = Ended(result.op, arg, error)

\* CheckLegacyConfigs(config_path)
CheckLegacyStep ==
    /\ pc = "CheckLegacyConfigs"
    /\ LET check == CheckLegacyConfigs(DirAt(fs, arg))
       IN  IF check.error # "none"
           THEN Throw(check.error)
           ELSE pc' = "LoadLoggerConfig" /\ UNCHANGED result
    /\ UNCHANGED <<fs, last_modified, logsys, server, config_path, server_id,
                   config_mutex, arg, rpc, gate, resolve, snap, first_id, external,
                   vin, vres>>

\* LoadLoggerConfig(config_path)
LoadLoggerStep ==
    /\ pc = "LoadLoggerConfig"
    /\ \E doc \in LoggerDocs :
        LET out == LoadLoggerConfig(last_modified, DirAt(fs, arg).logger_mtime, doc,
                                    logsys)
        IN  /\ last_modified' = out.last_modified
            /\ logsys' = out.logsys
            /\ gate' = GateRecord(arg, out)
            /\ IF out.error # "none"
               THEN Throw(out.error)
               ELSE pc' = "make_shared" /\ UNCHANGED result
    /\ UNCHANGED <<fs, server, config_path, server_id, config_mutex, arg, rpc, resolve,
                   snap, first_id, external, vin, vres>>

\* LoadServerConfig: _server = std::make_shared<Server>()
MakeServerStep ==
    /\ pc = "make_shared"
    /\ server' = NewServer
    /\ pc' = "FromDataSource"
    /\ UNCHANGED <<fs, last_modified, logsys, config_path, server_id, config_mutex,
                   arg, rpc, result, gate, resolve, snap, first_id, external, vin,
                   vres>>

\* LoadServerConfig: _server->FromDataSource(...)
FromDataSourceStep ==
    /\ pc = "FromDataSource"
    /\ \E doc \in ServerDocsAt(arg) :
        LET out == LoadServerConfig(doc)
        IN  /\ server' = out.server
            /\ IF out.error = "server_parse"
               THEN Throw(out.error)
               ELSE pc' = "CheckValidVersion" /\ UNCHANGED result
    /\ UNCHANGED <<fs, last_modified, logsys, config_path, server_id, config_mutex,
                   arg, rpc, gate, resolve, snap, first_id, external, vin, vres>>

\* LoadServerConfig: CheckValidVersion("Server", ...)
CheckServerVersionStep ==
    /\ pc = "CheckValidVersion"
    /\ IF CheckValidVersion("Server", server.version).kind # "ok"
       THEN Throw("server_version")
       ELSE pc' = "config_path" /\ UNCHANGED result
    /\ UNCHANGED <<fs, last_modified, logsys, server, config_path, server_id,
                   config_mutex, arg, rpc, gate, resolve, snap, first_id, external,
                   vin, vres>>

\* _config_path = config_path
RecordPathStep ==
    /\ pc = "config_path"
    /\ config_path' = arg
    /\ pc' = "LoadServerID"
    /\ UNCHANGED <<fs, last_modified, logsys, server, server_id, config_mutex, arg,
                   rpc, result, gate, resolve, snap, first_id, external, vin, vres>>

\* LoadServerID(config_path)
LoadServerIDStep ==
    /\ pc = "LoadServerID"
    /\ \E in \in GenerateInputs(DirAt(fs, arg).storage) :
        LET out == LoadServerID(server_id, DirAt(fs, arg).storage, in.uuid,
                                in.can_open)
        IN  /\ server_id' = out.server_id
            /\ fs' = WithStorage(fs, arg, out.storage)
            /\ resolve' = ResolveRecord(arg, out)
            /\ first_id' = IF first_id = NoId THEN out.server_id ELSE first_id
    /\ pc' = "SetID"
    /\ UNCHANGED <<last_modified, logsys, server, config_path, config_mutex, arg, rpc,
                   result, gate, snap, external, vin, vres>>

\* _server->SetID(_server_id), and LoadConfigs returns
SetIDStep ==
    /\ pc = "SetID"
    /\ server' = [server EXCEPT !.id = server_id, !.id_set = TRUE]
    /\ pc' = "idle"
    /\ result' = Ended(result.op, arg, "ok")
    /\ UNCHANGED <<fs, last_modified, logsys, config_path, server_id, config_mutex,
                   arg, rpc, gate, resolve, snap, first_id, external, vin, vres>>

\* auto lock_guard = std::lock_guard(_config_mutex)
Lock(operation) ==
    /\ rpc = "idle"
    /\ server.allocated
    /\ config_mutex = "free"
    /\ config_mutex' = "held"
    /\ rpc' = operation
    /\ UNCHANGED <<fs, last_modified, logsys, server, config_path, server_id, pc, arg,
                   result, gate, resolve, snap, first_id, external, vin, vres>>

\* GetCurrentConfigAsJson() is entered and takes the lock
EnterGetCurrentConfigAsJson == Lock("json")

\* GetCurrentConfigAsXml() is entered and takes the lock
EnterGetCurrentConfigAsXml == Lock("xml")

\* SaveCurrentConfig() is entered: its GetCurrentConfigAsXml() takes the lock
EnterSaveCurrentConfig == Lock("save")

\* serdes::Get...FromConfig(_server, false), and the lock guard is released
SerializeStep ==
    /\ rpc \in {"json", "xml", "save"}
    /\ snap' = [format |-> IF rpc = "json" THEN "json" ELSE "xml", doc |-> server,
                during |-> pc]
    /\ config_mutex' = "free"
    /\ rpc' = IF rpc = "save" THEN "DumpToFile" ELSE "idle"
    /\ UNCHANGED <<fs, last_modified, logsys, server, config_path, server_id, pc, arg,
                   result, gate, resolve, first_id, external, vin, vres>>

\* SaveCurrentConfig(config, Combine(_config_path, CFG_LAST_CONFIG_FILE_NAME))
DumpToFileStep ==
    /\ rpc = "DumpToFile"
    /\ \E can_open \in BOOLEAN : fs' = DumpToFile(config_path, can_open).fs
    /\ rpc' = "idle"
    /\ UNCHANGED <<last_modified, logsys, server, config_path, server_id, config_mutex,
                   pc, arg, result, gate, resolve, snap, first_id, external, vin, vres>>

NextSnapshot ==
    \/ EnterLoadConfigs
    \/ EnterReloadConfigs
    \/ CheckLegacyStep
    \/ LoadLoggerStep
    \/ MakeServerStep
    \/ FromDataSourceStep
    \/ CheckServerVersionStep
    \/ RecordPathStep
    \/ LoadServerIDStep
    \/ SetIDStep
    \/ EnterGetCurrentConfigAsJson
    \/ EnterGetCurrentConfigAsXml
    \/ EnterSaveCurrentConfig
    \/ SerializeStep
    \/ DumpToFileStep

\* one caller inside LoadConfigs / ReloadConfigs while another takes snapshots
SpecSnapshot == Init /\ [][NextSnapshot]_vars

---------------------------------------------------------------------------
(* LoadServerID called on its own, on any content of the storage file *)

StorageFiles == {File(content) : content \in SeqsUpTo(Chars, MaxLen)} \cup {NoFile}

InitResolve ==
    /\ ProgramInit
    /\ \E file \in StorageFiles :
        fs = [d \in Dirs |-> IF d = DefaultPath
                             THEN [EmptyDir EXCEPT !.storage = file]
                             ELSE EmptyDir]

\* LoadServerID(dir) with its effect on the directory
ResolveIn(dir) ==
    \E in \in GenerateInputs(fs[dir].storage) :
        LET out == LoadServerID(server_id, fs[dir].storage, in.uuid, in.can_open)
        IN  /\ server_id' = out.server_id
            /\ fs' = [fs EXCEPT ![dir].storage = out.storage]
            /\ resolve' = ResolveRecord(dir, out)
            /\ first_id' = IF first_id = NoId THEN out.server_id ELSE first_id
            /\ result' = Ended("LoadServerID", dir, "ok")

Resolve ==
    /\ \E dir \in Dirs : ResolveIn(dir)
    /\ UNCHANGED <<last_modified, logsys, server, config_path, config_mutex, pc, arg,
                   rpc, gate, snap, external, vin, vres>>

NextResolve == Resolve

SpecResolve == InitResolve /\ [][NextResolve]_vars

---------------------------------------------------------------------------
(* CheckValidVersion called on its own, in any state of the object *)

Names == DOMAIN supported_versions_map
Versions == -1..MaxVersion

LoadedServers ==
    {[NewServer EXCEPT !.parsed = TRUE, !.version = v, !.id = id, !.id_set = TRUE] :
        v \in Range(supported_versions_map["Server"]), id \in UUIDs}

InitValidate ==
    /\ fs = [d \in Dirs |-> InstalledDir]
    /\ last_modified \in {ZeroTime, InstalledDir.logger_mtime}
    /\ logsys = DefaultLog
    /\ server \in {NullServer} \cup LoadedServers
    /\ config_path = (IF server.allocated THEN DefaultPath ELSE "")
    /\ server_id = server.id
    /\ config_mutex = "free"
    /\ pc = "idle"
    /\ arg = config_path
    /\ rpc = "idle"
    /\ result = NoResult
    /\ gate = NoGate
    /\ snap = NoSnap
    /\ resolve = NoResolve
    /\ first_id = (IF server.allocated THEN server.id ELSE NoId)
    /\ external = 0
    /\ vin = NoCall
    /\ vres = NoOutcome

Validate ==
    \E name \in Names, version \in Versions :
        /\ vin' = [name |-> name, version |-> version]
        /\ vres' = CheckValidVersion(name, version)
        /\ UNCHANGED <<fs, last_modified, logsys, server, config_path, server_id,
                       config_mutex, pc, arg, rpc, result, gate, resolve, snap,
                       first_id, external>>

NextValidate == Validate

SpecValidate == InitValidate /\ [][NextValidate]_vars

---------------------------------------------------------------------------
(* The claims *)

\* the step is a call of LoadConfigs or ReloadConfigs
IsLoadStep ==
    /\ result'.call # result.call
    /\ result'.op \in {"LoadConfigs", "ReloadConfigs"}

\* the step is a call of LoadConfigs or ReloadConfigs whose logger file exists
IsGateStep ==
    /\ IsLoadStep
    /\ gate'.did # "none"
    /\ gate'.mtime # NoStat

\* the operation before this step checked the same logger file and completed
\* its reload or skipped
CheckedBefore ==
    /\ gate.did \in {"reload", "skip"}
    /\ gate.error = "none"
    /\ result.path = result'.path

\* C1: the logger gate reloads on the first check ever and after a change of
\* the file's modification time (here: to a time other than zero), and skips on
\* a second consecutive check of a file whose modification time did not change
C1_GateSkipsUnchangedFile ==
    [][IsGateStep =>
        /\ (CheckedBefore /\ gate'.mtime = gate.mtime) => gate'.did = "skip"
        /\ (/\ gate'.mtime # ZeroTime
            /\ \/ result.op = "none"
               \/ CheckedBefore /\ gate'.mtime # gate.mtime) => gate'.did = "reload"
      ]_vars

\* C2: a LoadConfigs / ReloadConfigs that fails after an earlier one succeeded
\* leaves the in-memory Server document, with its identity, as it was
C2_FailedLoadKeepsDocument ==
    [][(IsLoadStep /\ server.id_set /\ result'.outcome # "ok") => server' = server]_vars

\* positions of LoadConfigs at which _server is a new object that is not yet
\* parsed, validated and given the identity
Replacing == {"FromDataSource", "CheckValidVersion", "config_path", "LoadServerID",
              "SetID"}

\* C3: no snapshot taken while another caller is inside LoadConfigs returns a
\* document that was replaced but is not yet validated and given its identity
C3_SnapshotExcludesReload ==
    (snap.format # "none" /\ snap.during \in Replacing) =>
        /\ snap.doc.parsed
        /\ snap.doc.version \in {8, 9}
        /\ snap.doc.id_set

\* C4: with either legacy marker in the base directory LoadConfigs fails with
\* the legacy error before the logger gate and the Server document, and the
\* recorded timestamp, the logging state, the document, the base path, the
\* identity and the files are unchanged
C4_LegacyMarkerFailsFirst ==
    [][(/\ IsLoadStep
        /\ \/ DirAt(fs, result'.path).last_config
           \/ DirAt(fs, result'.path).legacy_last_config) =>
        /\ result'.outcome = "legacy"
        /\ gate' = NoGate
        /\ resolve' = NoResolve
        /\ UNCHANGED <<last_modified, logsys, server, config_path, server_id, fs>>
      ]_vars

\* C4 witness: a reload after a successful load fails on the older marker alone
C4_Witness ==
    /\ result.op = "ReloadConfigs"
    /\ result.outcome = "legacy"
    /\ server.id_set
    /\ fs[DefaultPath].legacy_last_config
    /\ ~fs[DefaultPath].last_config

\* the step is a call of LoadServerID on its own
IsResolveStep ==
    /\ result'.call # result.call
    /\ result'.op = "LoadServerID"

\* C5 as claimed: LoadServerID on a directory without storage file generates a
\* non-empty identity and stores it, and the next LoadServerID on the directory
\* returns the same identity from the file
C5_GeneratesAndPersists ==
    [][IsResolveStep =>
        /\ ~resolve'.before.exists =>
            /\ resolve'.from = "generated"
            /\ resolve'.id # <<>>
            /\ fs'[result'.path].storage = File(resolve'.id)
        /\ (resolve.from = "generated" /\ result.path = result'.path) =>
            /\ resolve'.from = "storage"
            /\ resolve'.id = resolve.id
      ]_vars

\* C5 as amended: LoadServerID on a directory without storage file generates a
\* non-empty identity and, if the file can be opened for writing, stores it;
\* after a generation that stored it, the next LoadServerID on the directory
\* returns the same identity from the file
C5_GeneratesAndPersistsIfWritable ==
    [][IsResolveStep =>
        /\ ~resolve'.before.exists =>
            /\ resolve'.from = "generated"
            /\ resolve'.id # <<>>
            /\ resolve'.stored => fs'[result'.path].storage = File(resolve'.id)
            /\ ~resolve'.stored => fs'[result'.path].storage = fs[result'.path].storage
        /\ (resolve.from = "generated" /\ resolve.stored
            /\ result.path = result'.path) =>
            /\ resolve'.from = "storage"
            /\ resolve'.id = resolve.id
      ]_vars

\* C5 witness: an identity that was generated and stored is read back
C5_Witness ==
    /\ resolve.from = "storage"
    /\ resolve.id \in UUIDs
    /\ resolve.before = File(resolve.id)
    /\ first_id = resolve.id

\* C6: once LoadServerID has resolved an identity, _server_id and the identity
\* of the Server document stay that identity
C6_IdentityNeverChanges ==
    first_id # NoId =>
        /\ server_id = first_id
        /\ server.id_set => server.id = first_id

\* the migration notes by the version they lead away from, in ascending order
MigrationNotes ==
    <<[threshold |-> 7, note |-> NOTES_V7_V8], [threshold |-> 8, note |-> NOTES_V8_V9]>>

NotesFrom(version) ==
    LET kept == SelectSeq(MigrationNotes, LAMBDA n : n.threshold >= version)
    IN  [i \in 1..Len(kept) |-> kept[i].note]

\* the supported versions as the interface documents them
DocumentedVersions(name) == IF name = "Server" THEN {8, 9} ELSE {2}

\* C7: a non-zero version outside the supported set of a registered name is
\* refused as outdated, with exactly the notes of every threshold >= version,
\* in ascending order
C7_OutdatedListsSkippedNotes ==
    (/\ vres.kind # "none"
     /\ vin.name \in {"Server", "Logger"}
     /\ vin.version # 0
     /\ vin.version \notin DocumentedVersions(vin.name)) =>
        /\ vres.kind = "outdated"
        /\ vres.notes = NotesFrom(vin.version)

\* C7 witness: Server version 7 is refused with both lists
C7_Witness ==
    /\ vin = [name |-> "Server", version |-> 7]
    /\ vres.kind = "outdated"
    /\ vres.notes = <<NOTES_V7_V8, NOTES_V8_V9>>

\* C8: CheckValidVersion accepts every supported version of a registered
\* name, changes nothing of the object or the directories, and gives the same
\* outcome when repeated
C8_SupportedAcceptedNoEffect ==
    [][(vin' # vin \/ vres' # vres) =>
        /\ vin'.version \in DocumentedVersions(vin'.name) => vres'.kind = "ok"
        /\ vin' = vin => vres' = vres
        /\ UNCHANGED <<fs, last_modified, logsys, server, config_path, server_id,
                       config_mutex>>
      ]_vars

\* C8 witness: Server version 8, not the latest, is accepted on a loaded object
C8_Witness ==
    /\ vin = [name |-> "Server", version |-> 8]
    /\ vres.kind = "ok"
    /\ server.id_set

\* C9: version 0 is refused as "could not obtain version", never as outdated
C9_ZeroIsNoVersion ==
    (vres.kind # "none" /\ vin.version = 0) => vres.kind = "no_version"

\* C9 witness: a Server document without version
C9_Witness ==
    /\ vin = [name |-> "Server", version |-> 0]
    /\ vres.kind = "no_version"
    /\ vres.notes = <<>>

\* the first line of a file, without its newline
FirstLine(content) ==
    LET n == CHOOSE k \in 1..(Len(content) + 1) :
                /\ k = Len(content) + 1 \/ content[k] = LF
                /\ \A j \in 1..(k - 1) : content[j] # LF
    IN  [i \in 1..(n - 1) |-> content[i]]

\* C10: when the storage file can be opened LoadServerID returns its first
\* line without newline, as stored, an empty one too, and generates nothing
C10_ReturnsFirstLineAsStored ==
    (resolve.from # "none" /\ resolve.before.exists) =>
        /\ resolve.from = "storage"
        /\ resolve.id = FirstLine(resolve.before.content)
        /\ server_id = resolve.id
        /\ fs[result.path].storage = resolve.before

\* the step is a call of LoadConfigs or ReloadConfigs that got past the guard
\* and the logger gate, and read a Server document of a supported version
ReachedIdentity ==
    /\ IsLoadStep
    /\ result'.outcome # "legacy"
    /\ gate'.did # "none"
    /\ gate'.error = "none"
    /\ server'.parsed
    /\ server'.version \in {8, 9}

\* C11: when there is no storage file to load the identity from and the
\* generated identity cannot be stored either, LoadConfigs still ends without
\* error, with the generated identity in _server_id and in the Server document
C11_PersistFailureSwallowed ==
    [][(/\ ReachedIdentity
        /\ ~DirAt(fs, result'.path).storage.exists
        /\ ~DirAt(fs', result'.path).storage.exists) =>
        /\ result'.outcome = "ok"
        /\ resolve'.from = "generated"
        /\ ~resolve'.stored
        /\ resolve'.id \in UUIDs
        /\ server_id' = resolve'.id
        /\ server'.id_set
        /\ server'.id = resolve'.id
      ]_vars

\* C11 witness: a load that ended well with an identity that is in no file
C11_Witness ==
    /\ result.outcome = "ok"
    /\ result.path = DefaultPath
    /\ resolve.from = "generated"
    /\ ~resolve.stored
    /\ ~fs[DefaultPath].storage.exists
    /\ server.id_set
    /\ server.id = server_id
    /\ server_id \in UUIDs

\* C12: a LoadConfigs / ReloadConfigs that reads a Server document of an
\* unsupported version fails on it, and _server_id, _config_path and the
\* storage file are as before the call
C12_VersionFailureKeepsIdentityAndPath ==
    [][(/\ IsLoadStep
        /\ result'.outcome # "legacy"
        /\ gate'.did # "none"
        /\ gate'.error = "none"
        /\ server'.parsed
        /\ server'.version \notin {8, 9}) =>
        /\ result'.outcome = "server_version"
        /\ resolve' = NoResolve
        /\ UNCHANGED <<server_id, config_path, first_id, fs>>
      ]_vars

\* C12 witness: a reload fails on the version after a load that resolved an
\* identity and recorded the path
C12_Witness ==
    /\ result.op = "ReloadConfigs"
    /\ result.outcome = "server_version"
    /\ server_id \in UUIDs
    /\ first_id = server_id
    /\ config_path = DefaultPath

\* C13: when stat of the logger file fails, the gate leaves _last_modified
\* zero, does not touch the logging state, throws nothing, and LoadConfigs
\* goes on to the Server document
C13_MissingLoggerFileSkips ==
    [][(/\ IsLoadStep
        /\ result'.outcome # "legacy"
        /\ DirAt(fs, result'.path).logger_mtime = NoStat) =>
        /\ gate'.did = "nofile"
        /\ gate'.error = "none"
        /\ last_modified' = ZeroTime
        /\ logsys' = logsys
        /\ result'.outcome \in {"server_parse", "server_version", "ok"}
      ]_vars

\* C13 witness: the logger file was loaded, then removed, and the next load
\* keeps the logging state and ends well
C13_Witness ==
    /\ result.outcome = "ok"
    /\ result.path = DefaultPath
    /\ gate.did = "nofile"
    /\ last_modified = ZeroTime
    /\ logsys.log_path = "logs"
    /\ logsys.tags # {}

\* the step is a call of SaveCurrentConfig()
IsSaveStep ==
    /\ result'.call # result.call
    /\ result'.op = "SaveCurrentConfig"

\* C14: SaveCurrentConfig returns true with the file written or false with
\* the files as they were, and leaves _server, _server_id and _config_path
\* unchanged
C14_SaveReportsAndKeepsState ==
    [][IsSaveStep =>
        /\ result'.outcome \in {"true", "false"}
        /\ result'.outcome = "true" =>
            (result'.path \in Dirs => fs'[result'.path].last_config)
        /\ result'.outcome = "false" => fs' = fs
        /\ result'.path = config_path
        /\ UNCHANGED <<server, server_id, config_path, first_id>>
      ]_vars

\* C14 witness: a save after a load fails to open its file
C14_Witness ==
    /\ result.op = "SaveCurrentConfig"
    /\ result.outcome = "false"
    /\ result.path = DefaultPath
    /\ server.id_set
    /\ ~fs[DefaultPath].last_config

\* C15: _last_modified is zero after construction and a check of an existing
\* logger file changes it only by a reload that ends without error, to the
\* file's modification time
C15_TimestampOnlyAfterSuccessfulReload ==
    [][(IsGateStep /\ last_modified' # last_modified) =>
        /\ gate'.did = "reload"
        /\ gate'.error = "none"
        /\ last_modified' = gate'.mtime
      ]_vars

\* C16: a tag that ov_log_set_enable refuses ends LoadConfigs with the tag
\* error before the Server document is read, and the next check of the logger
\* file, its modification time unchanged, reloads again
C16_TagFailureAbortsAndRetries ==
    [][IsLoadStep =>
        /\ gate'.error = "logger_tag" =>
            /\ result'.outcome = "logger_tag"
            /\ resolve' = NoResolve
            /\ UNCHANGED <<server, config_path, server_id, fs>>
        /\ (/\ gate.error = "logger_tag"
            /\ gate'.did # "none"
            /\ result.path = result'.path
            /\ gate'.mtime = gate.mtime) => gate'.did = "reload"
      ]_vars

\* C16 witness: with the files never changed, a reload fails on a tag after
\* an earlier load of the same logger file ended well
C16_Witness ==
    /\ result.op = "ReloadConfigs"
    /\ result.outcome = "logger_tag"
    /\ gate.did = "reload"
    /\ last_modified = gate.mtime
    /\ server.id_set
    /\ external = 0

\* the statements of LoadConfigs in the order the claim gives them
LoadOrder == <<"CheckLegacyConfigs", "LoadLoggerConfig", "make_shared",
               "FromDataSource", "CheckValidVersion", "config_path",
               "LoadServerID", "SetID">>

Position(p) == CHOOSE i \in 1..Len(LoadOrder) : LoadOrder[i] = p

\* C17: LoadConfigs goes through the guard, the logger gate, the Server
\* document and its version, the base path, the identity and SetID in this
\* order, each only after the one before ended without error and each
\* changing only what is its own; ReloadConfigs enters the same sequence, the
\* guard first, on the recorded base path
C17_LoadStepsInOrder ==
    [][/\ pc' # pc =>
            \/ /\ pc = "idle"
               /\ pc' = "CheckLegacyConfigs"
               /\ result'.outcome = "running"
               /\ result'.op = "ReloadConfigs" =>
                    arg' = (IF config_path = "" THEN DefaultPath ELSE config_path)
            \/ /\ pc # "idle"
               /\ pc' # "idle"
               /\ Position(pc') = Position(pc) + 1
               /\ result' = result
            \/ /\ pc = "SetID"
               /\ pc' = "idle"
               /\ result'.outcome = "ok"
            \/ /\ pc \in {"CheckLegacyConfigs", "LoadLoggerConfig", "FromDataSource",
                          "CheckValidVersion"}
               /\ pc' = "idle"
               /\ result'.outcome \notin {"ok", "running", "none"}
       /\ (pc = "CheckLegacyConfigs"
           /\ (DirAt(fs, arg).last_config \/ DirAt(fs, arg).legacy_last_config)) =>
            (pc' \in {pc, "idle"} /\ (pc' = "idle" => result'.outcome = "legacy"))
       /\ (last_modified' # last_modified \/ logsys' # logsys) => pc = "LoadLoggerConfig"
       /\ server' # server => pc \in {"make_shared", "FromDataSource", "SetID"}
       /\ config_path' # config_path => (pc = "config_path" /\ config_path' = arg)
       /\ server_id' # server_id => pc = "LoadServerID"
       /\ (pc = "SetID" /\ pc' = "idle") => (server'.id_set /\ server'.id = server_id)
      ]_vars

\* C17 witness: a ReloadConfigs went through every step on the recorded path
\* and read back the identity the load before it had stored
C17_Witness ==
    /\ pc = "idle"
    /\ result.op = "ReloadConfigs"
    /\ result.outcome = "ok"
    /\ result.path = config_path
    /\ gate.did = "reload"
    /\ resolve.from = "storage"
    /\ resolve.id \in UUIDs
    /\ server.id = resolve.id

\* C18: LoadConfigs writes the identity-storage file only when it could not
\* load the identity from it and generated one, and, the directories never
\* changed from outside, only at the first generation
C18_StorageWrittenOnFirstGenerationOnly ==
    [][(IsLoadStep /\ fs' # fs) =>
        /\ resolve'.from = "generated"
        /\ ~resolve'.before.exists
        /\ external = 0 => first_id \notin UUIDs
      ]_vars

\* C19: with the directories never changed from outside, a ReloadConfigs
\* right after a SaveCurrentConfig that returned true, itself after a
\* LoadConfigs that ended well, does not fail on a legacy marker
C19_SaveThenReloadPassesGuard ==
    [][(/\ IsLoadStep
        /\ result'.op = "ReloadConfigs"
        /\ result.op = "SaveCurrentConfig"
        /\ result.outcome = "true"
        /\ server.id_set
        /\ external = 0) => result'.outcome # "legacy"
      ]_vars

\* C20: when LoadConfigs / ReloadConfigs returns, the Server document has
\* version 8 or 9 and _server_id as its identity, _config_path is the
\* directory loaded, and the first line of a readable storage file there is
\* that identity
C20_StateAfterSuccessfulLoad ==
    [][(IsLoadStep /\ result'.outcome = "ok") =>
        /\ server'.parsed
        /\ server'.version \in {8, 9}
        /\ server'.id_set
        /\ server'.id = server_id'
        /\ config_path' = result'.path
        /\ DirAt(fs', result'.path).storage.exists =>
            FirstLine(DirAt(fs', result'.path).storage.content) = server_id'
      ]_vars

===========================================================================
